---- MODULE Spec2Model ----
(***************************************************************************)
(* Model of json-unflattening: flatten (tree -> flat map) and unflatten    *)
(* (flat map -> tree) over serde_json values.                              *)
(*                                                                         *)
(* Strings (object keys, flat-map paths) are sequences of one-character    *)
(* strings, so that path formatting and the regular-expression scan of    *)
(* unflatten are computed character by character.  A serde_json Map is a   *)
(* sequence of [k, v] entries with pairwise distinct keys, iterated in     *)
(* insertion order; equality of maps and of values does not depend on     *)
(* that order (ValueEq).                                                   *)
(***************************************************************************)
EXTENDS Integers, Sequences, FiniteSets, TLC

VARIABLES
  pc,      \* "flatten", "unflatten" or "done": the call that runs next
  tree,    \* flattening.rs:31, the argument `value` of flatten
  flat,    \* flattening.rs:32 `flattened_json`, then unflattening.rs:31 `data`
  ferr,    \* flattening.rs:41, the error of flatten, "none" when Ok
  output,  \* unflattening.rs:32 `output`
  idx,     \* unflattening.rs:34, the entry of `data` the loop takes next
  res      \* unflattening.rs:90, the Result unflatten returns

vars == <<pc, tree, flat, ferr, output, idx, res>>

(***************************************************************************)
(* Bounds of the checked instances.                                        *)
(***************************************************************************)
\* nodes (containers and scalars) of an input tree of Spec
MaxNodes == 5
\* nodes of an input tree of SpecKeys
MaxKeyNodes == 7
\* path pieces, summed over the entries of an input flat map of SpecUnflatten
MaxPieces == 4

(***************************************************************************)
(* serde_json::Value                                                       *)
(***************************************************************************)
Null == [t |-> "null"]

Bool(b) == [t |-> "bool", b |-> b]

Number(n) == [t |-> "number", n |-> n]

String(s) == [t |-> "string", s |-> s]

Array(a) == [t |-> "array", a |-> a]

Object(o) == [t |-> "object", o |-> o]

is_array(v) == v.t = "array"

is_object(v) == v.t = "object"

(***************************************************************************)
(* serde_json::Map<String, Value>                                          *)
(***************************************************************************)
MapKeys(o) == {o[i].k : i \in 1..Len(o)}

MapContains(o, k) == \E i \in 1..Len(o) : o[i].k = k

MapIndex(o, k) == CHOOSE i \in 1..Len(o) : o[i].k = k

MapGet(o, k) == o[MapIndex(o, k)].v

\* Map::insert: replaces the value of an existing key in place, else appends
MapInsert(o, k, v) ==
  IF MapContains(o, k)
    THEN [o EXCEPT ![MapIndex(o, k)] = [k |-> k, v |-> v]]
    ELSE Append(o, [k |-> k, v |-> v])

RECURSIVE ValueEq(_, _)
\* PartialEq of Value: arrays element-wise in order, objects as key -> value
\* mappings whatever the insertion order
ValueEq(x, y) ==
  IF x.t # y.t THEN FALSE
  ELSE IF x.t = "array"
    THEN /\ Len(x.a) = Len(y.a)
         /\ \A i \in 1..Len(x.a) : ValueEq(x.a[i], y.a[i])
  ELSE IF x.t = "object"
    THEN /\ Len(x.o) = Len(y.o)
         /\ \A i \in 1..Len(x.o) :
              /\ MapContains(y.o, x.o[i].k)
              /\ ValueEq(x.o[i].v, MapGet(y.o, x.o[i].k))
  ELSE x = y

(***************************************************************************)
(* Characters, Display of usize, str::parse::<usize>                       *)
(***************************************************************************)
DigitChars == <<"0", "1", "2", "3", "4", "5", "6", "7", "8", "9">>

IsDigit(c) == \E d \in 1..Len(DigitChars) : DigitChars[d] = c

DigitVal(c) == (CHOOSE d \in 1..Len(DigitChars) : DigitChars[d] = c) - 1

RECURSIVE to_string(_)
\* format!("{}", i) of a usize: base 10, no leading zeros
to_string(n) ==
  IF n < Len(DigitChars)
    THEN <<DigitChars[n + 1]>>
    ELSE to_string(n \div Len(DigitChars)) \o <<DigitChars[(n % Len(DigitChars)) + 1]>>

RECURSIVE ParseDigits(_, _)
ParseDigits(s, acc) ==
  IF s = <<>> THEN acc
  ELSE ParseDigits(Tail(s), acc * Len(DigitChars) + DigitVal(Head(s)))

\* property.parse::<usize>(): Ok for a non-empty run of decimal digits
\* (an optional leading "+" is accepted too), Err otherwise
parse_usize(s) ==
  LET body == IF s # <<>> /\ Head(s) = "+" THEN Tail(s) ELSE s
  IN IF body # <<>> /\ \A i \in 1..Len(body) : IsDigit(body[i])
       THEN [ok |-> TRUE, n |-> ParseDigits(body, 0)]
       ELSE [ok |-> FALSE, n |-> 0]

(***************************************************************************)
(* flattening.rs                                                           *)
(***************************************************************************)
\* Result<(), Error> of the flatten_* helpers together with the &mut result
FlOk(m) == [map |-> m, err |-> "none"]

FlErr(m, e) == [map |-> m, err |-> e]

\* flatten_value with the collision arm that always builds [old, new]
flatten_value_always_pairs(result, property, val) ==
  IF is_object(val) \/ is_array(val)
    THEN FlErr(result, "NotAValue")
  ELSE IF MapContains(result, property)
    THEN FlOk(MapInsert(result, property, Array(<<MapGet(result, property), val>>)))
  ELSE FlOk(MapInsert(result, property, val))

\* fn flatten_value
flatten_value(result, property, val) ==
  IF is_object(val) \/ is_array(val)
    THEN FlErr(result, "NotAValue")
  ELSE IF MapContains(result, property)
    THEN LET v == MapGet(result, property)
         IN IF is_array(v)
              THEN FlOk(MapInsert(result, property, Array(Append(v.a, val))))
              ELSE FlOk(MapInsert(result, property, Array(<<v, val>>)))
  ELSE FlOk(MapInsert(result, property, val))

RECURSIVE flatten_object_from(_, _, _, _, _), flatten_array_from(_, _, _, _)

\* one iteration of the for loop of flatten_object, entry i of nested_json
flatten_object_from(result, hasParent, property, nested_json, i) ==
  IF i > Len(nested_json) THEN FlOk(result)
  ELSE
    LET prop == nested_json[i].k
        value == nested_json[i].v
        flattened_prop == IF hasParent THEN property \o <<".">> \o prop ELSE prop
        r == IF is_array(value)
               THEN flatten_array_from(result, flattened_prop, value.a, 1)
             ELSE IF is_object(value)
               THEN flatten_object_from(result, TRUE, flattened_prop, value.o, 1)
             ELSE flatten_value(result, flattened_prop, value)
    IN IF r.err # "none" THEN r
       ELSE flatten_object_from(r.map, hasParent, property, nested_json, i + 1)

\* flatten_array whose element paths count from 1
flatten_array_from_one_based(result, property, array, i) ==
  IF i > Len(array) THEN FlOk(result)
  ELSE
    LET value == array[i]
        flattened_prop == property \o <<"[">> \o to_string(i) \o <<"]">>
        r == IF is_object(value)
               THEN flatten_object_from(result, TRUE, flattened_prop, value.o, 1)
             ELSE IF is_array(value)
               THEN flatten_array_from(result, flattened_prop, value.a, 1)
             ELSE flatten_value(result, flattened_prop, value)
    IN IF r.err # "none" THEN r
       ELSE flatten_array_from(r.map, property, array, i + 1)

\* one iteration of the for loop of flatten_array, element i (1-based here)
flatten_array_from(result, property, array, i) ==
  IF i > Len(array) THEN FlOk(result)
  ELSE
    LET value == array[i]
        flattened_prop == property \o <<"[">> \o to_string(i - 1) \o <<"]">>
        r == IF is_object(value)
               THEN flatten_object_from(result, TRUE, flattened_prop, value.o, 1)
             ELSE IF is_array(value)
               THEN flatten_array_from(result, flattened_prop, value.a, 1)
             ELSE flatten_value(result, flattened_prop, value)
    IN IF r.err # "none" THEN r
       ELSE flatten_array_from(r.map, property, array, i + 1)

\* fn flatten_object
flatten_object(result, hasParent, property, nested_json) ==
  flatten_object_from(result, hasParent, property, nested_json, 1)

\* fn flatten_array
flatten_array(result, property, array) ==
  flatten_array_from(result, property, array, 1)

\* flatten that walks a top-level array instead of rejecting it
flatten_any_container(value) ==
  IF is_object(value)
    THEN IF value.o = <<>> THEN FlOk(<<>>)
         ELSE flatten_object(<<>>, FALSE, <<>>, value.o)
  ELSE IF is_array(value) THEN flatten_array(<<>>, <<>>, value.a)
  ELSE FlErr(<<>>, "NotAnObject")

\* pub fn flatten
flatten(value) ==
  IF is_object(value)
    THEN IF value.o = <<>> THEN FlOk(<<>>)
         ELSE flatten_object(<<>>, FALSE, <<>>, value.o)
    ELSE FlErr(<<>>, "NotAnObject")

(***************************************************************************)
(* unflattening.rs                                                         *)
(***************************************************************************)
None == [some |-> FALSE, s |-> <<>>]

Some(s) == [some |-> TRUE, s |-> s]

\* the characters of the class [^.\[\]]
IsKeyChar(c) == c \notin {".", "[", "]"}

RECURSIVE KeyRunEnd(_, _), DigitRunEnd(_, _)
\* first position at or after i that is not matched by [^.\[\]] (greedy +)
KeyRunEnd(p, i) ==
  IF i <= Len(p) /\ IsKeyChar(p[i]) THEN KeyRunEnd(p, i + 1) ELSE i

\* first position at or after i that is not matched by \d (greedy +)
DigitRunEnd(p, i) ==
  IF i <= Len(p) /\ IsDigit(p[i]) THEN DigitRunEnd(p, i + 1) ELSE i

\* a match of  \.?([^.\[\]]+)|\[(\d+)\]  starting exactly at position pos:
\* the first alternative is tried first; end is the position after the match
MatchAt(p, pos) ==
  LET start1 == IF p[pos] = "." THEN pos + 1 ELSE pos
      end1 == KeyRunEnd(p, start1)
      end2 == DigitRunEnd(p, pos + 1)
  IN IF end1 > start1
       THEN [matched |-> TRUE, g1 |-> Some(SubSeq(p, start1, end1 - 1)),
             g2 |-> None, end |-> end1]
     ELSE IF p[pos] = "[" /\ end2 > pos + 1 /\ end2 <= Len(p) /\ p[end2] = "]"
       THEN [matched |-> TRUE, g1 |-> None,
             g2 |-> Some(SubSeq(p, pos + 1, end2 - 1)), end |-> end2 + 1]
     ELSE [matched |-> FALSE, g1 |-> None, g2 |-> None, end |-> pos]

RECURSIVE captures_from(_, _)
\* Regex::captures_iter: the successive leftmost non-overlapping matches;
\* text that matches at no position is skipped
captures_from(p, pos) ==
  IF pos > Len(p) THEN <<>>
  ELSE LET m == MatchAt(p, pos)
       IN IF m.matched
            THEN <<[g1 |-> m.g1, g2 |-> m.g2]>> \o captures_from(p, m.end)
            ELSE captures_from(p, pos + 1)

captures_iter(p) == captures_from(p, 1)

\* the node reached through `cur` after the call, or the error returned by `?`
WOk(n) == [node |-> n, err |-> "none"]

WErr(e) == [node |-> Null, err |-> e]

\* the match after the captures loop: insertion of the entry's value
insert_leaf(cur, property, leaf) ==
  IF is_array(cur) THEN WOk(Array(Append(cur.a, leaf)))
  ELSE IF is_object(cur) THEN WOk(Object(MapInsert(cur.o, property, leaf)))
  ELSE WErr("InvalidType")

\* Value::Array arm of `match cur`: the array after the conditional push
array_step(a, index, value) ==
  IF index >= Len(a) THEN Append(a, value) ELSE a

\* the Object arm without the `is_none` test: the child is always replaced
object_step_always_insert(o, property, value) == MapInsert(o, property, value)

\* Value::Object arm of `match cur`: the map after the conditional insert
object_step(o, property, value) ==
  IF ~MapContains(o, property) THEN MapInsert(o, property, value) ELSE o

RECURSIVE walk(_, _, _, _, _)
\* the body of `for c in regex.captures_iter(&p)` from capture i on, then the
\* final match; cur is the node the mutable reference points at, and the
\* returned node is that node after all writes made through the reference
walk(cur, property, caps, i, leaf) ==
  IF i > Len(caps) THEN insert_leaf(cur, property, leaf)
  ELSE
    LET c == caps[i]
        c2 == c.g2
        value == IF c2.some THEN Array(<<>>) ELSE Object(<<>>)
        next == IF c2.some THEN c2 ELSE c.g1
    IN IF is_array(cur)
         THEN LET index == parse_usize(property)
                  a1 == array_step(cur.a, index.n, value)
              IN IF ~index.ok THEN WErr("InvalidProperty")
                 ELSE IF index.n >= Len(a1) THEN WErr("FormatError")
                 ELSE IF ~next.some THEN WErr("InvalidProperty")
                 ELSE LET r == walk(a1[index.n + 1], next.s, caps, i + 1, leaf)
                      IN IF r.err # "none" THEN r
                         ELSE WOk(Array([a1 EXCEPT ![index.n + 1] = r.node]))
       ELSE IF is_object(cur)
         THEN LET o1 == object_step(cur.o, property, value)
              IN IF ~MapContains(o1, property) THEN WErr("Unspecified")
                 ELSE IF ~next.some THEN WErr("InvalidProperty")
                 ELSE LET r == walk(MapGet(o1, property), next.s, caps, i + 1, leaf)
                      IN IF r.err # "none" THEN r
                         ELSE WOk(Object(MapInsert(o1, property, r.node)))
       ELSE WErr("InvalidType")

\* one iteration of `for (p, value) in data`
unflatten_entry(out, p, value) == walk(out, <<>>, captures_iter(p), 1, value)

\* output.get("").ok_or(InvalidProperty).cloned()
unflatten_return(out) ==
  IF is_object(out) /\ MapContains(out.o, <<>>)
    THEN [st |-> "ok", v |-> MapGet(out.o, <<>>), e |-> "none"]
    ELSE [st |-> "err", v |-> Null, e |-> "InvalidProperty"]

RECURSIVE unflatten_from(_, _, _)
unflatten_from(out, data, i) ==
  IF i > Len(data) THEN unflatten_return(out)
  ELSE LET r == unflatten_entry(out, data[i].k, data[i].v)
       IN IF r.err # "none" THEN [st |-> "err", v |-> Null, e |-> r.err]
          ELSE unflatten_from(r.node, data, i + 1)

\* pub fn unflatten, as one function of its argument
unflatten(data) == unflatten_from(Object(<<>>), data, 1)

(***************************************************************************)
(* Inputs                                                                  *)
(***************************************************************************)
Scalars == {Number(1), String(<<"x">>)}

PlainKeys == {<<"a">>, <<"b">>}

\* keys that contain the separator of nested object keys
SeparatorKeys == {<<"a">>, <<"a", ".", "a">>}

RECURSIVE MapsOver(_, _)
\* the maps that give the values of the sequence s, in order, distinct keys of K
MapsOver(s, K) ==
  IF s = <<>> THEN {<<>>}
  ELSE UNION {{<<[k |-> k, v |-> Head(s)]>> \o m : m \in MapsOver(Tail(s), K \ {k})} :
                k \in K}

\* the containers over the child sequences in ss: objects with keys in K, and
\* arrays when withArrays
ContainersOver(ss, K, withArrays) ==
  (IF withArrays THEN {Array(s) : s \in ss} ELSE {})
  \cup UNION {{Object(m) : m \in MapsOver(s, K)} : s \in ss}

RECURSIVE ValuesOfSize(_, _, _, _), SeqsOfSize(_, _, _, _)
\* the values of exactly n nodes: scalars of S, object keys of K
ValuesOfSize(n, K, S, withArrays) ==
  (IF n = 1 THEN S ELSE {})
  \cup ContainersOver(SeqsOfSize(n - 1, K, S, withArrays), K, withArrays)

\* the sequences of such values of exactly m nodes in all
SeqsOfSize(m, K, S, withArrays) ==
  IF m = 0 THEN {<<>>}
  ELSE UNION {{<<v>> \o s : v \in ValuesOfSize(k, K, S, withArrays),
                             s \in SeqsOfSize(m - k, K, S, withArrays)} : k \in 1..m}

RECURSIVE RenumberFrom(_, _), RenumberSeq(_, _), RenumberMap(_, _)
\* v with its scalar leaves replaced by Number(n), Number(n + 1), ... in the
\* order of a depth-first walk; next is the first number not used
RenumberFrom(v, n) ==
  IF is_array(v)
    THEN LET r == RenumberSeq(v.a, n) IN [v |-> Array(r.v), next |-> r.next]
  ELSE IF is_object(v)
    THEN LET r == RenumberMap(v.o, n) IN [v |-> Object(r.v), next |-> r.next]
  ELSE [v |-> Number(n), next |-> n + 1]

RenumberSeq(s, n) ==
  IF s = <<>> THEN [v |-> <<>>, next |-> n]
  ELSE LET h == RenumberFrom(Head(s), n)
           t == RenumberSeq(Tail(s), h.next)
       IN [v |-> <<h.v>> \o t.v, next |-> t.next]

RenumberMap(o, n) ==
  IF o = <<>> THEN [v |-> <<>>, next |-> n]
  ELSE LET h == RenumberFrom(Head(o).v, n)
           t == RenumberMap(Tail(o), h.next)
       IN [v |-> <<[k |-> Head(o).k, v |-> h.v]>> \o t.v, next |-> t.next]

Renumber(v) == RenumberFrom(v, 1).v

\* pieces a path string of an input flat map is put together from
Pieces == {<<>>, <<"a">>, <<".", "a">>, <<".", "b">>, <<"[", "0", "]">>,
           <<"[", "1", "]">>, <<"[">>}

RECURSIVE FlatMapOf(_, _, _)
\* the flat map whose paths are the pieces ps, concatenated up to each cut
\* (piece i opens a new entry when cuts[i]); entry n holds Number(n)
FlatMapOf(ps, cuts, i) ==
  IF i > Len(ps) THEN <<>>
  ELSE LET rest == FlatMapOf(ps, cuts, i + 1)
       IN IF i = Len(ps) \/ cuts[i + 1]
            THEN <<[k |-> ps[i], v |-> Null]>> \o rest
            ELSE <<[k |-> ps[i] \o Head(rest).k, v |-> Null]>> \o Tail(rest)

NumberedEntries(m) == [i \in 1..Len(m) |-> [k |-> m[i].k, v |-> Number(i)]]

DistinctKeys(m) == \A i, j \in 1..Len(m) : m[i].k = m[j].k => i = j

(***************************************************************************)
(* State machine: main.rs calls flatten, then unflatten on its result;     *)
(* unflatten is also a public function, called on any Map<String, Value>.  *)
(***************************************************************************)
NoResult == [st |-> "none", v |-> Null, e |-> "none"]

InitCommon ==
  /\ ferr = "none"
  /\ output = Object(<<>>)
  /\ idx = 1
  /\ res = NoResult

\* flatten is about to be called on any value of at most MaxNodes nodes
\* with plain keys
Init ==
  /\ pc = "flatten"
  /\ \/ tree \in Scalars \cup {Null, Bool(TRUE)}
     \/ \E t \in 0..(MaxNodes - 1) :
          \E cs \in SeqsOfSize(t, PlainKeys, Scalars, TRUE) :
            \/ tree = Array(cs)
            \/ \E m \in MapsOver(cs, PlainKeys) : tree = Object(m)
  /\ flat = <<>>
  /\ InitCommon

\* flatten is about to be called on an object of at most MaxKeyNodes nodes,
\* built of objects whose keys may hold separators; the leaves are numbered
\* in the order flatten visits them
InitKeys ==
  /\ pc = "flatten"
  /\ \E t \in 0..(MaxKeyNodes - 1) :
       \E cs \in SeqsOfSize(t, SeparatorKeys, {Null}, FALSE) :
         \E m \in MapsOver(cs, SeparatorKeys) : tree = Renumber(Object(m))
  /\ flat = <<>>
  /\ InitCommon

\* unflatten is about to be called on a flat map of at most MaxPieces pieces
InitUnflatten ==
  /\ pc = "unflatten"
  /\ tree = Null
  /\ \E t \in 0..MaxPieces :
       \E ps \in [1..t -> Pieces], cuts \in [1..t -> BOOLEAN] :
         LET m == FlatMapOf(ps, cuts, 1)
         IN /\ t > 0 => cuts[1]
            /\ DistinctKeys(m)
            /\ flat = NumberedEntries(m)
  /\ InitCommon

\* flatten(&input_json): Ok hands the map to unflatten, Err ends the run
Flatten ==
  /\ pc = "flatten"
  /\ LET r == flatten(tree)
     IN IF r.err = "none"
          THEN /\ flat' = r.map
               /\ pc' = "unflatten"
               /\ ferr' = ferr
          ELSE /\ ferr' = r.err
               /\ pc' = "done"
               /\ flat' = flat
  /\ UNCHANGED <<tree, output, idx, res>>

\* one iteration of `for (p, value) in data` of unflatten
UnflattenEntry ==
  /\ pc = "unflatten"
  /\ idx <= Len(flat)
  /\ LET r == unflatten_entry(output, flat[idx].k, flat[idx].v)
     IN IF r.err = "none"
          THEN /\ output' = r.node
               /\ idx' = idx + 1
               /\ UNCHANGED <<pc, res>>
          ELSE /\ res' = [st |-> "err", v |-> Null, e |-> r.err]
               /\ pc' = "done"
               /\ UNCHANGED <<output, idx>>
  /\ UNCHANGED <<tree, flat, ferr>>

\* the return statement of unflatten
UnflattenReturn ==
  /\ pc = "unflatten"
  /\ idx > Len(flat)
  /\ res' = unflatten_return(output)
  /\ pc' = "done"
  /\ UNCHANGED <<tree, flat, ferr, output, idx>>

Next == Flatten \/ UnflattenEntry \/ UnflattenReturn

NextUnflatten == UnflattenEntry \/ UnflattenReturn

Spec == Init /\ [][Next]_vars

SpecKeys == InitKeys /\ [][Next]_vars

SpecUnflatten == InitUnflatten /\ [][NextUnflatten]_vars

(***************************************************************************)
(* Notions the properties are stated with                                  *)
(***************************************************************************)
KeyStep(k) == [kind |-> "key", key |-> k, index |-> 0]

IndexStep(i) == [kind |-> "index", key |-> <<>>, index |-> i]

RECURSIVE LeavesOf(_, _), LeavesFrom(_, _, _)
\* the scalar leaves under v in document order, each with the steps (object
\* keys, 0-based array indices) that lead to it from the top; steps leads to v
LeavesOf(v, steps) ==
  IF is_object(v) \/ is_array(v) THEN LeavesFrom(v, steps, 1)
  ELSE <<[steps |-> steps, v |-> v]>>

LeavesFrom(v, steps, i) ==
  IF is_object(v)
    THEN IF i > Len(v.o) THEN <<>>
         ELSE LeavesOf(v.o[i].v, Append(steps, KeyStep(v.o[i].k)))
              \o LeavesFrom(v, steps, i + 1)
    ELSE IF i > Len(v.a) THEN <<>>
         ELSE LeavesOf(v.a[i], Append(steps, IndexStep(i - 1)))
              \o LeavesFrom(v, steps, i + 1)

RECURSIVE PathOf(_, _)
\* the path string of the first n steps: the bare key at depth 0, "." and
\* the key for a nested object key, "[" index "]" for an array element
PathOf(steps, n) ==
  IF n = 0 THEN <<>>
  ELSE PathOf(steps, n - 1) \o
       (IF steps[n].kind = "index"
          THEN <<"[">> \o to_string(steps[n].index) \o <<"]">>
          ELSE (IF n = 1 THEN <<>> ELSE <<".">>) \o steps[n].key)

LeafPath(l) == PathOf(l.steps, Len(l.steps))

\* the leaves of the input tree, and those that compute the path p
TreeLeaves == LeavesOf(tree, <<>>)

LeavesAt(p) == SelectSeq(TreeLeaves, LAMBDA l : LeafPath(l) = p)

IsContainer(v) == is_array(v) \/ is_object(v)

RECURSIVE HasEmptyContainer(_)
HasEmptyContainer(v) ==
  IF is_array(v) THEN v.a = <<>> \/ \E i \in 1..Len(v.a) : HasEmptyContainer(v.a[i])
  ELSE IF is_object(v)
    THEN v.o = <<>> \/ \E i \in 1..Len(v.o) : HasEmptyContainer(v.o[i].v)
  ELSE FALSE

RECURSIVE GrammarTail(_, _)
\* p from position i on is ("." segment | "[" index "]")*
GrammarTail(p, i) ==
  IF i > Len(p) THEN TRUE
  ELSE IF p[i] = "."
    THEN KeyRunEnd(p, i + 1) > i + 1 /\ GrammarTail(p, KeyRunEnd(p, i + 1))
  ELSE IF p[i] = "["
    THEN LET e == DigitRunEnd(p, i + 1)
         IN /\ e > i + 1
            /\ e <= Len(p)
            /\ p[e] = "]"
            /\ (p[i + 1] = "0" => e = i + 2)
            /\ GrammarTail(p, e + 1)
  ELSE FALSE

\* p is a path string of the grammar  segment ("." segment | "[" index "]")*
GrammarPath(p) == KeyRunEnd(p, 1) > 1 /\ GrammarTail(p, KeyRunEnd(p, 1))

\* the properties unflatten walks for the path p: "" for the root, then the
\* text of each segment
PropertiesOf(p) ==
  LET caps == captures_iter(p)
  IN <<<<>>>> \o [i \in 1..Len(caps) |->
                    IF caps[i].g2.some THEN caps[i].g2.s ELSE caps[i].g1.s]

RECURSIVE NodeAt(_, _)
\* the node reached from v by the properties props: a key in an object, an
\* index in an array
NodeAt(v, props) ==
  IF props = <<>> THEN [ok |-> TRUE, node |-> v]
  ELSE IF is_object(v)
    THEN IF MapContains(v.o, Head(props))
           THEN NodeAt(MapGet(v.o, Head(props)), Tail(props))
           ELSE [ok |-> FALSE, node |-> Null]
  ELSE IF is_array(v)
    THEN LET index == parse_usize(Head(props))
         IN IF index.ok /\ index.n < Len(v.a)
              THEN NodeAt(v.a[index.n + 1], Tail(props))
              ELSE [ok |-> FALSE, node |-> Null]
  ELSE [ok |-> FALSE, node |-> Null]

\* the container old is still there as new, with every child it had, and
\* every child other than the one at property `on` is unchanged
ChildrenKept(old, new, on) ==
  /\ new.t = old.t
  /\ is_object(old) =>
       /\ Len(new.o) >= Len(old.o)
       /\ \A i \in 1..Len(old.o) :
            /\ new.o[i].k = old.o[i].k
            /\ old.o[i].k # on => new.o[i].v = old.o[i].v
  /\ is_array(old) =>
       /\ Len(new.a) >= Len(old.a)
       /\ \A i \in 1..Len(old.a) :
            (~(parse_usize(on).ok /\ parse_usize(on).n = i - 1)) => new.a[i] = old.a[i]

\* every path of the flat map is a path string of the grammar
GrammarMap == \A i \in 1..Len(flat) : GrammarPath(flat[i].k)

Done == pc = "done"

Returned == pc = "done" /\ ferr = "none"

(***************************************************************************)
(* Properties                                                              *)
(***************************************************************************)
\* C1: round trip -- for every top-level Object T built of Objects, Arrays
\* and scalars, no two leaves computing the same path, flatten(T) succeeds
\* and unflatten(flatten(T)) is Ok with a value equal to T.
C1_RoundTrip ==
  (Done /\ is_object(tree) /\ Len(TreeLeaves) = Cardinality({LeafPath(TreeLeaves[i]) : i \in 1..Len(TreeLeaves)})) =>
    /\ ferr = "none"
    /\ res.st = "ok"
    /\ ValueEq(res.v, tree)

\* the round trip of the trees in which no Object and no Array is empty
RoundTripOfNonEmptyContainers ==
  (Done /\ is_object(tree) /\ ~HasEmptyContainer(tree)) =>
    (ferr = "none" /\ res.st = "ok" /\ ValueEq(res.v, tree))

\* C2: unflatten of the empty flat map returns Ok with an empty Object.
C2_EmptyMapGivesEmptyObject ==
  (Done /\ flat = <<>>) => (res.st = "ok" /\ res.v = Object(<<>>))

\* C3: a flat map that holds a path string outside the path grammar makes
\* unflatten return an error.
C3_MalformedPathRejected ==
  (Done /\ \E i \in 1..Len(flat) : ~GrammarPath(flat[i].k)) => res.st = "err"

\* C4: for a top-level Object T with plain keys flatten(T) is exactly the
\* map with one entry per scalar leaf of T, keyed by the concatenation of
\* the steps to the leaf and holding the leaf; distinct leaves get distinct
\* keys.
C4_FlattenPathEncoding ==
  (pc # "flatten" /\ is_object(tree)) =>
    /\ ferr = "none"
    /\ Len(flat) = Len(TreeLeaves)
    /\ DistinctKeys(flat)
    /\ {flat[i] : i \in 1..Len(flat)} =
         {[k |-> LeafPath(TreeLeaves[i]), v |-> TreeLeaves[i].v] : i \in 1..Len(TreeLeaves)}

\* a nested object key under an array element has been encoded
C4_Witness ==
  /\ pc # "flatten"
  /\ Len(flat) >= 2
  /\ \E i \in 1..Len(flat) : flat[i].k = <<"a", "[", "1", "]", ".", "b">>

\* C5: flatten returns NotAnObject for every top-level value that is not an
\* Object and Ok for every top-level Object (the empty map for an empty
\* Object); it never returns NotAValue.
C5_TopLevelRejection ==
  pc # "flatten" =>
    /\ ferr = (IF is_object(tree) THEN "none" ELSE "NotAnObject")
    /\ tree = Object(<<>>) => flat = <<>>

\* flatten has rejected a top-level Array that holds a leaf
C5_Witness ==
  /\ pc = "done"
  /\ ferr = "NotAnObject"
  /\ is_array(tree)
  /\ tree.a # <<>>

C7_NoInternalFaultOnFlattened ==
  Returned => res.e \notin {"FormatError", "Unspecified"}

\* C8: once the node at a prefix of a path has been created as an Array
\* (the next segment is a bracketed index) or as an Object (otherwise), the
\* node at that prefix has that type after every later entry; stated for the
\* prefixes of the first path, which that entry creates.
C8_PrefixTypeIrrevocable ==
  ((pc = "unflatten" \/ res.st = "ok") /\ idx > 1 /\ GrammarMap) =>
    LET caps == captures_iter(flat[1].k)
        props == PropertiesOf(flat[1].k)
    IN \A j \in 1..Len(caps) :
         LET n == NodeAt(output, SubSeq(props, 1, j))
         IN n.ok /\ n.node.t = (IF caps[j].g2.some THEN "array" ELSE "object")

\* C9: array indices need not be contiguous from 0 nor ascending -- a new
\* element is appended whatever its index, so on a flat map of grammar paths
\* an index is never the reason unflatten fails to find the element.
C9_IndicesNeedNotBeContiguous ==
  (Done /\ GrammarMap) => res.e # "FormatError"

\* C10: after k leaves collide on one path, the entry of that path is the
\* flat Array of the k scalars in the order flatten met them (k >= 2), and
\* a path one leaf computes holds that leaf.
C10_CollisionRule ==
  (pc # "flatten" /\ ferr = "none") =>
    \A i \in 1..Len(flat) :
      LET ls == LeavesAt(flat[i].k)
      IN /\ Len(ls) >= 1
         /\ Len(ls) = 1 => flat[i].v = ls[1].v
         /\ Len(ls) >= 2 => flat[i].v = Array([j \in 1..Len(ls) |-> ls[j].v])

\* three leaves have collided on one path
C10_Witness ==
  /\ pc # "flatten"
  /\ \E i \in 1..Len(flat) : is_array(flat[i].v) /\ Len(flat[i].v.a) = 3

====
